---------------------------- MODULE Spec2Model ----------------------------
(***************************************************************************)
(* A model of generate_images.py: the main program that renders the three  *)
(* app store images, the assembly pipeline generate_image, and the Bezier  *)
(* sampler draw_breeze_curve.                                              *)
(*                                                                         *)
(* Numbers.  Python floats are IEEE doubles.  Two representations are      *)
(* used, each exact for the values it carries:                             *)
(*   - "milli" fixed point (an integer counting thousandths) for the       *)
(*     values derived from scale = width / 1000.0 and width / 4.  For the  *)
(*     three configured widths scale is 0.25, 0.5 or 1.0, a power of two,  *)
(*     so every product with it is computed without rounding error.        *)
(*   - the products n * c of an integer and a literal c in [0.5, 1) that   *)
(*     is not a dyadic rational (0.6, 0.76, 0.84) are computed as the      *)
(*     hardware does: the 53-bit mantissa of c times n, rounded to 53 bits *)
(*     to nearest, ties to even, on 16-bit limbs.                          *)
(***************************************************************************)
EXTENDS Integers, Sequences, FiniteSets, TLC

\* ------------------------------------------------------------- bounds

\* Measured text widths (bbox[2] - bbox[0]) range over 0..MaxTw.
MaxTw == 3

\* x coordinates of the control points handed to draw_breeze_curve range
\* over 0..MaxCoord.
MaxCoord == 1

\* ---------------------------------------------------------- constants

BG_DARK == <<30, 47, 60>>
GREEN == <<46, 204, 113>>
TEXT_COL == <<160, 185, 200>>
DOT_DIM == <<55, 80, 95>>
LINE_DIM == <<50, 75, 90>>
ICON_WHITE == <<220, 225, 230>>

\* The three calls of the main program, in order.
Configs ==
    << [width |-> 250,  height |-> 175, filename |-> "small.png"],
       [width |-> 500,  height |-> 350, filename |-> "large.png"],
       [width |-> 1000, height |-> 700, filename |-> "xlarge.png"] >>

\* ------------------------------------------------- milli fixed point

\* one unit of the fixed point is a thousandth
Milli == 10 * 10 * 10

\* float(n) for an integer n
F(n) == n * Milli

\* a * b and a / b on milli values
FMul(a, b) == (a * b) \div Milli
FDiv(a, b) == (a * Milli) \div b

\* int(a): truncation toward zero
int(a) == IF a >= 0 THEN a \div Milli ELSE -((-a) \div Milli)

Max(a, b) == IF a >= b THEN a ELSE b
Min(a, b) == IF a <= b THEN a ELSE b

\* ------------------------------------------- IEEE double products

Limb == 2 ^ 16

\* The number of bits of x, 0 <= x < 2^16
BitLen(x) == Cardinality({b \in 0..15 : 2 ^ b <= x})

\* The 53-bit mantissas M of the literals, c = M / 2^53, as four 16-bit
\* limbs, least significant first.
\* 0.6  = 0x1.3333333333333p-1
Mant060 == << 13107, 13107, 13107, 19 >>
\* 0.84 = 0x1.ae147ae147ae1p-1
Mant084 == << 31457, 44564, 57671, 26 >>
\* 0.76 = 0x1.851eb851eb852p-1
Mant076 == << 47186, 34078, 20971, 24 >>

\* n * M as four limbs (the top limb is not reduced), 0 <= n < 1024
MulLimbs(n, m) ==
    LET t0 == n * m[1]
        t1 == n * m[2] + t0 \div Limb
        t2 == n * m[3] + t1 \div Limb
        t3 == n * m[4] + t2 \div Limb
    IN  << t0 % Limb, t1 % Limb, t2 % Limb, t3 >>

\* The top limb of the product rounded to 53 significant bits, nearest,
\* ties to even: the s bits dropped are all in the lowest limb, and rounding
\* up may carry from it into the limbs above.
RoundedTop(p) ==
    LET s    == BitLen(p[4]) - 5
        unit == 2 ^ s
        rem  == p[1] % unit
        odd  == (p[1] \div unit) % 2 = 1
        up   == s > 0 /\ (2 * rem > unit \/ (2 * rem = unit /\ odd))
        q0   == p[1] - rem + (IF up THEN unit ELSE 0)
    IN  p[4] + (p[3] + (p[2] + q0 \div Limb) \div Limb) \div Limb

\* int(n * c): the integer part of the rounded product, its bits from 53
\* up, which are the bits from 5 up of the top limb
IntMul(n, m) == IF n = 0 THEN 0 ELSE RoundedTop(MulLimbs(n, m)) \div 32

\* ------------------------------------------------------------- images

\* The alpha a colour tuple paints into an RGBA image: its fourth value,
\* and 255 (opaque) when the tuple has only the three colour values.
AlphaOf(color) == IF Len(color) = 4 THEN color[4] ELSE 255

\* Image.new(mode, size, color).  The pixel buffer is kept as the set of
\* alpha values its pixels hold (empty for a mode without alpha channel).
NewImage(mode, size, color) ==
    [mode |-> mode, size |-> size,
     alphas |-> IF mode = "RGBA" THEN {AlphaOf(color)} ELSE {}]

\* A drawing call with the given fill: the pixels it touches take the
\* fill's alpha, the others keep theirs.
Draw(im, color) == [im EXCEPT !.alphas = @ \cup {AlphaOf(color)}]

\* The alpha of one composited pixel: src over dst, on 0..255
OverAlpha(dst, src) == (src * 255 + dst * (255 - src) + 127) \div 255

\* Image.alpha_composite(dst, src)
AlphaComposite(dst, src) ==
    [mode |-> "RGBA", size |-> dst.size,
     alphas |-> {OverAlpha(d, a) : d \in dst.alphas, a \in src.alphas}]

\* Variant of CanvasFill: a fully transparent fill
CanvasFillTransparent == << 0, 0, 0, 0 >>

\* The colour the main canvas is allocated with
CanvasFill == BG_DARK

\* The colour the glow layer is allocated with
GlowFill == <<0, 0, 0, 0>>

\* Variant of Flatten: the canvas is handed on as it is, alpha included
FlattenKeepsAlpha(im) ==
    [mode |-> im.mode, size |-> im.size, alphas |-> im.alphas,
     mask |-> im.alphas]

\* Image.new('RGB', img.size, BG_DARK), then paste(img, mask = alpha band
\* of img): an image without alpha channel, and the mask that was used.
Flatten(im) ==
    [mode |-> "RGB", size |-> im.size, alphas |-> {}, mask |-> im.alphas]

\* ------------------------------------------------ scaled measurements
\* Each takes scale (milli) and computes what generate_image computes.

Scale(w) == FDiv(F(w), F(1000))

grid_spacing(sc) == int(FMul(F(70), sc))
\* Variant of dot_r: the minimum is forgotten
dot_r_unclamped(sc) == int(FMul(F(3), sc))
dot_r(sc) == Max(2, int(FMul(F(3), sc)))
dot_spacing(sc) == int(FMul(F(18), sc))
dot_x(sc) == int(FMul(F(55), sc))
dot_y(sc) == int(FMul(F(45), sc))
dot_right(sc) == int(FMul(F(100), sc))
\* 1.5 is 1500 thousandths
wave_lw(sc) == Max(1, int(FMul(1500, sc)))
glow_rx(sc) == int(FMul(F(90), sc))
glow_ry(sc) == int(FMul(F(30), sc))
\* 3.2 is taken as 3200 thousandths: the double nearest to 3.2 is off by
\* less than 2^-50, scaling it by a power of two is exact, and the integer
\* parts of 0.8, 1.6 and 3.2 do not depend on so small an error.
icon_lw(sc) ==
    << Max(2, int(FMul(F(5), sc))),
       Max(2, int(FMul(F(4), sc))),
       Max(1, int(FMul(3200, sc))) >>
font_size(sc) == Max(10, int(FMul(F(16), sc)))
small_font_size(sc) == Max(8, int(FMul(F(12), sc)))
bar_h(sc) == Max(2, int(FMul(F(4), sc)))
\* Variant of bar_w: an absolute width, not passed through scale
bar_w_absolute(sc) == 250
bar_w(sc) == int(FMul(F(250), sc))

\* Variant of fill_w: the product is rounded up instead of down
fill_w_ceil(bw) == IntMul(bw, Mant060) + 1
\* int(bar_w * 0.6)
fill_w(bw) == IntMul(bw, Mant060)
\* int(height * 0.84)
bar_y(h) == IntMul(h, Mant084)
\* int(height * 0.76)
text_y(h) == IntMul(h, Mant076)

\* ---------------------------------------------------------- the glow

\* The radii the loop runs over, in order: range(20, 0, -1)
GlowRange == [k \in 1..20 |-> 21 - k]

\* Variant of GlowAlpha: the cap at 50 is forgotten
GlowAlphaUncapped(r) == 8 * (20 - r)

\* fill alpha of the ellipse of index r: min(int(8 * (20 - r)), 50)
GlowAlpha(r) == Min(8 * (20 - r), 50)

\* The ellipse of index r: its alpha, and its radii ex, ey (milli)
GlowEllipse(r, sc) ==
    [r |-> r, alpha |-> GlowAlpha(r),
     ex |-> F(glow_rx(sc)) + FMul(F(r * 3), sc),
     ey |-> F(glow_ry(sc)) + FMul(F(r * 1), sc)]

\* The glow layer after the loop: every ellipse drawn, in order
GlowEllipses(sc) == [k \in 1..Len(GlowRange) |-> GlowEllipse(GlowRange[k], sc)]

\* ------------------------------------------------------------ readings

\* The four texts (the degree sign and the subscript 2 written in ASCII)
readings == << "22.4 C", "58.2%", "CO2  412 ppm", "VOC  Index 98" >>

section_w(w) == FDiv(F(w), F(Len(readings)))

\* tx of reading i (0-based): int(section_w * i + section_w / 2)
tx(w, i) == int(FMul(section_w(w), F(i)) + FDiv(section_w(w), F(2)))

\* Variant of LabelX: the text width is not halved
LabelXNotHalved(w, i, tw) == tx(w, i) - tw

\* Where the text of measured width tw is drawn
LabelX(w, i, tw) == tx(w, i) - tw \div 2

\* --------------------------------------------------------------- state

VARIABLES
    pc,          \* position of the program
    calls,       \* the calls of generate_image made so far
    width, height, filename,   \* arguments of the current call
    scale,       \* milli
    img,         \* the main canvas
    glow_img,    \* the glow layer
    ellipses,    \* the ellipses drawn on the glow layer, in order
    loc,         \* the scaled measurements computed so far in this call
    font, small_font,
    font_exc,    \* which font load raised in this call: none, first, second
    labels,      \* the readings drawn so far in this call
    bar,         \* the two rectangles of the progress bar
    img_rgb,     \* the flattened image handed to save
    saves,       \* the file names save was called with
    files,       \* the output directory: file name -> what is there
    out,         \* the lines printed
    log,         \* the measurements of each call that returned
    points,      \* draw_breeze_curve: its control points
    all_pts,     \* draw_breeze_curve: the sampled polyline
    lines        \* draw_breeze_curve: the line segments drawn

vars == << pc, calls, width, height, filename, scale, img, glow_img, ellipses,
           loc, font, small_font, font_exc, labels, bar, img_rgb, saves,
           files, out, log, points, all_pts, lines >>

curveVars == << points, all_pts, lines >>

None == "none"

\* An image variable, and the bar, before the call has set it
NoImage == [mode |-> None, size |-> << 0, 0 >>, alphas |-> {}]
NoBar == [track |-> << >>, fill |-> << >>, radius |-> 0]

FileNames == {Configs[k].filename : k \in 1..Len(Configs)}

Init ==
    /\ pc = "main"
    /\ calls = << >>
    /\ width = 0 /\ height = 0 /\ filename = None
    /\ scale = 0
    /\ img = NoImage /\ glow_img = NoImage /\ ellipses = << >>
    /\ loc = << >>
    /\ font = None /\ small_font = None /\ font_exc = None
    /\ labels = << >>
    /\ bar = NoBar
    /\ img_rgb = NoImage
    /\ saves = << >>
    /\ files = [f \in FileNames |-> "absent"]
    /\ out = << >>
    /\ log = << >>
    /\ points = << >> /\ all_pts = << >> /\ lines = << >>

\* ---------------------------------------------------- the main program

\* print("Generating app store images...")
Start ==
    /\ pc = "main"
    /\ out' = Append(out, << "Generating app store images..." >>)
    /\ pc' = "call"
    /\ UNCHANGED << calls, width, height, filename, scale, img, glow_img,
                    ellipses, loc, font, small_font, font_exc, labels, bar,
                    img_rgb, saves, files, log, curveVars >>

\* The next generate_image(width, height, filename) of the main program
Call ==
    /\ pc = "call"
    /\ Len(calls) < Len(Configs)
    /\ LET c == Configs[Len(calls) + 1]
       IN  /\ calls' = Append(calls, c)
           /\ width' = c.width
           /\ height' = c.height
           /\ filename' = c.filename
    \* the locals of the new call are not set yet
    /\ scale' = 0
    /\ img' = NoImage /\ glow_img' = NoImage /\ ellipses' = << >>
    /\ loc' = << >>
    /\ font' = None /\ small_font' = None /\ font_exc' = None
    /\ labels' = << >>
    /\ bar' = NoBar
    /\ img_rgb' = NoImage
    /\ pc' = "new"
    /\ UNCHANGED << saves, files, out, log, curveVars >>

\* print("Done!")
Finish ==
    /\ pc = "call"
    /\ Len(calls) = Len(Configs)
    /\ out' = Append(out, << "Done!" >>)
    /\ pc' = "done"
    /\ UNCHANGED << calls, width, height, filename, scale, img, glow_img,
                    ellipses, loc, font, small_font, font_exc, labels, bar,
                    img_rgb, saves, files, log, curveVars >>

\* ------------------------------------------------------ generate_image

\* img = Image.new('RGBA', (width, height), BG_DARK); scale = width / 1000.0
NewCanvas ==
    /\ pc = "new"
    /\ img' = NewImage("RGBA", << width, height >>, CanvasFill)
    /\ scale' = Scale(width)
    /\ pc' = "background"
    /\ UNCHANGED << calls, width, height, filename, glow_img, ellipses, loc,
                    font, small_font, font_exc, labels, bar, img_rgb, saves,
                    files, out, log, curveVars >>

\* The gradient, the grid lines, the two dot clusters and the five waves
Background ==
    /\ pc = "background"
    /\ loc' = [grid_spacing |-> grid_spacing(scale),
               dot_r |-> dot_r(scale),
               dot_spacing |-> dot_spacing(scale),
               dot_x |-> dot_x(scale),
               dot_y |-> dot_y(scale),
               dot_right |-> dot_right(scale),
               wave_lw |-> wave_lw(scale)]
    /\ img' = Draw(Draw(Draw(img, BG_DARK), DOT_DIM), LINE_DIM)
    /\ pc' = "glow"
    /\ UNCHANGED << calls, width, height, filename, scale, glow_img, ellipses,
                    font, small_font, font_exc, labels, bar, img_rgb, saves,
                    files, out, log, curveVars >>

\* The glow layer, its ellipses, and its composition onto the canvas
Glow ==
    /\ pc = "glow"
    /\ ellipses' = GlowEllipses(scale)
    /\ glow_img' =
         [NewImage("RGBA", << width, height >>, GlowFill) EXCEPT
            !.alphas = @ \cup {ellipses'[k].alpha : k \in 1..Len(ellipses')}]
    /\ loc' = loc @@ [glow_rx |-> glow_rx(scale), glow_ry |-> glow_ry(scale)]
    /\ img' = AlphaComposite(img, glow_img')
    /\ pc' = "icon"
    /\ UNCHANGED << calls, width, height, filename, scale, font, small_font,
                    font_exc, labels, bar, img_rgb, saves, files, out, log,
                    curveVars >>

\* The icon: three curves, each with its line width (how one curve is
\* sampled and drawn is DrawBreezeCurve below)
Icon ==
    /\ pc = "icon"
    /\ loc' = loc @@ [icon_lw |-> icon_lw(scale)]
    /\ img' = Draw(img, ICON_WHITE)
    /\ pc' = "fonts"
    /\ UNCHANGED << calls, width, height, filename, scale, glow_img, ellipses,
                    font, small_font, font_exc, labels, bar, img_rgb, saves,
                    files, out, log, curveVars >>

\* Variant of FontsAfter: the handler replaces small_font only, so a font
\* that was loaded before the second load raised stays
FontsAfterKeepsFirst(exc, sc) ==
    IF exc = None
    THEN [font |-> "truetype", small_font |-> "truetype",
          sizes |-> [font_size |-> font_size(sc),
                     small_font_size |-> small_font_size(sc)]]
    ELSE IF exc = "first"
    THEN [font |-> "default", small_font |-> "default",
          sizes |-> [font_size |-> font_size(sc)]]
    ELSE [font |-> "truetype", small_font |-> "default",
          sizes |-> [font_size |-> font_size(sc),
                     small_font_size |-> small_font_size(sc)]]

\* What the try block leaves when the load named by exc raises
\* (none: neither does).  small_font_size is computed only once the first
\* load has returned.
FontsAfter(exc, sc) ==
    IF exc = None
    THEN [font |-> "truetype", small_font |-> "truetype",
          sizes |-> [font_size |-> font_size(sc),
                     small_font_size |-> small_font_size(sc)]]
    ELSE [font |-> "default", small_font |-> "default",
          sizes |-> IF exc = "first"
                    THEN [font_size |-> font_size(sc)]
                    ELSE [font_size |-> font_size(sc),
                          small_font_size |-> small_font_size(sc)]]

\* text_y and the two font loads, either of which may raise OSError
LoadFonts ==
    /\ pc = "fonts"
    /\ \E exc \in {None, "first", "second"} :
         LET after == FontsAfter(exc, scale)
         IN  /\ font_exc' = exc
             /\ font' = after.font
             /\ small_font' = after.small_font
             /\ loc' = loc @@ after.sizes @@ [text_y |-> text_y(height)]
    /\ pc' = "text"
    /\ UNCHANGED << calls, width, height, filename, scale, img, glow_img,
                    ellipses, labels, bar, img_rgb, saves, files, out, log,
                    curveVars >>

\* One round of the loop over readings: measure the text, draw it centred
DrawReading ==
    /\ pc = "text"
    /\ Len(labels) < Len(readings)
    /\ \E tw \in 0..MaxTw :
         LET i == Len(labels)
         IN  labels' = Append(labels,
                 [text |-> readings[i + 1], i |-> i, tw |-> tw,
                  x |-> LabelX(width, i, tw), y |-> loc.text_y,
                  font |-> font])
    /\ img' = Draw(img, TEXT_COL)
    /\ pc' = IF Len(labels') = Len(readings) THEN "bar" ELSE "text"
    /\ UNCHANGED << calls, width, height, filename, scale, glow_img, ellipses,
                    loc, font, small_font, font_exc, bar, img_rgb, saves,
                    files, out, log, curveVars >>

\* The track and the green fill of the progress bar
DrawBar ==
    /\ pc = "bar"
    /\ loc' = loc @@ [bar_y |-> bar_y(height),
                      bar_h |-> bar_h(scale),
                      bar_w |-> bar_w(scale),
                      bar_x |-> (width - bar_w(scale)) \div 2,
                      fill_w |-> fill_w(bar_w(scale))]
    /\ bar' = [track |-> << loc'.bar_x, loc'.bar_y,
                            loc'.bar_x + loc'.bar_w, loc'.bar_y + loc'.bar_h >>,
               fill  |-> << loc'.bar_x, loc'.bar_y,
                            loc'.bar_x + loc'.fill_w, loc'.bar_y + loc'.bar_h >>,
               radius |-> loc'.bar_h \div 2]
    /\ img' = Draw(Draw(img, << 40, 60, 75 >>), GREEN)
    /\ pc' = "save"
    /\ UNCHANGED << calls, width, height, filename, scale, glow_img, ellipses,
                    font, small_font, font_exc, labels, img_rgb, saves, files,
                    out, log, curveVars >>

\* Flatten, write the file, print the progress line, return
Save ==
    /\ pc = "save"
    /\ img_rgb' = Flatten(img)
    /\ saves' = Append(saves, filename)
    /\ files' = [files EXCEPT ![filename] = "png"]
    /\ out' = Append(out, << "Saved", filename, width, height >>)
    /\ log' = Append(log, loc)
    /\ pc' = "call"
    /\ UNCHANGED << calls, width, height, filename, scale, img, glow_img,
                    ellipses, loc, font, small_font, font_exc, labels, bar,
                    curveVars >>

\* Variant of SaveFails: the error is caught and the program goes on to the
\* next image
SaveFailsCaught ==
    /\ pc = "save"
    /\ img_rgb' = Flatten(img)
    /\ saves' = Append(saves, filename)
    /\ \E left \in {files[filename], "partial"} :
         files' = [files EXCEPT ![filename] = left]
    /\ pc' = "call"
    /\ UNCHANGED << calls, width, height, filename, scale, img, glow_img,
                    ellipses, loc, font, small_font, font_exc, labels, bar,
                    out, log, curveVars >>

\* Flatten, then save raises: nothing catches it, the program ends.  The
\* file may not have been created, or may have been left incomplete.
SaveFails ==
    /\ pc = "save"
    /\ img_rgb' = Flatten(img)
    /\ saves' = Append(saves, filename)
    /\ \E left \in {files[filename], "partial"} :
         files' = [files EXCEPT ![filename] = left]
    /\ pc' = "crashed"
    /\ UNCHANGED << calls, width, height, filename, scale, img, glow_img,
                    ellipses, loc, font, small_font, font_exc, labels, bar,
                    out, log, curveVars >>

Next ==
    \/ Start
    \/ Call
    \/ NewCanvas
    \/ Background
    \/ Glow
    \/ Icon
    \/ LoadFonts
    \/ DrawReading
    \/ DrawBar
    \/ Save
    \/ SaveFails
    \/ Finish

Spec == Init /\ [][Next]_vars

\* The program is sequential and runs until it ends or an error ends it:
\* whenever a step is possible, one is taken.
FairSpec == Spec /\ WF_vars(Next)

\* --------------------------------------------------- draw_breeze_curve
\* Control points have integer coordinates and a sample is kept as the
\* exact value of the Bezier polynomial times steps^3.  The float the code
\* computes differs from it by rounding at the inner samples only: at
\* t = 0 and t = 1 three of the four products are zero and the fourth is
\* the control point itself.

steps == 80

\* cubic_bezier(p0, p1, p2, p3, t) at t = i / steps, times steps^3
cubic_bezier(p0, p1, p2, p3, i) ==
    LET u == steps - i
        B(c) == u * u * u * p0[c] + 3 * u * u * i * p1[c]
                + 3 * u * i * i * p2[c] + i * i * i * p3[c]
    IN  << B(1), B(2) >>

\* First segment: for i in range(steps + 1)
FirstSegment(pts) ==
    [k \in 1..(steps + 1) |-> cubic_bezier(pts[1], pts[2], pts[3], pts[4], k - 1)]

\* Variant of SecondSegment: the loop starts at 0, sampling the midpoint again
SecondSegmentFromZero(pts) ==
    [k \in 1..(steps + 1) |->
        cubic_bezier(pts[4], pts[5], pts[6], pts[7], k - 1)]

\* Second segment: for i in range(1, steps + 1)
SecondSegment(pts) ==
    [k \in 1..steps |-> cubic_bezier(pts[4], pts[5], pts[6], pts[7], k)]

\* draw.line([all_pts[i], all_pts[i+1]]) for i in range(len(all_pts) - 1)
Segments(ap) == [i \in 1..(Len(ap) - 1) |-> << ap[i], ap[i + 1] >>]

\* The y coordinates of the three curves of draw_icon
CurveYs ==
    { << 30, 18, 42, 30, 18, 34, 26 >>,
      << 50, 36, 64, 50, 36, 56, 46 >>,
      << 70, 58, 82, 70, 58, 74, 66 >> }

\* The control points the sampler is run on: any x in 0..MaxCoord for each
\* of the seven, with the y of one of the icon's curves.
PointInputs ==
    { [k \in 1..7 |-> << xs[k], ys[k] >>] :
        xs \in [1..7 -> 0..MaxCoord], ys \in CurveYs }

InitCurve ==
    /\ pc = "curve"
    /\ calls = << >>
    /\ width = 0 /\ height = 0 /\ filename = None
    /\ scale = 0
    /\ img = NoImage /\ glow_img = NoImage /\ ellipses = << >>
    /\ loc = << >>
    /\ font = None /\ small_font = None /\ font_exc = None
    /\ labels = << >>
    /\ bar = NoBar
    /\ img_rgb = NoImage
    /\ saves = << >>
    /\ files = [f \in FileNames |-> "absent"]
    /\ out = << >>
    /\ log = << >>
    /\ points \in PointInputs
    /\ all_pts = << >>
    /\ lines = << >>

\* draw_breeze_curve(draw, points, width, color)
DrawBreezeCurve ==
    /\ pc = "curve"
    /\ all_pts' = FirstSegment(points) \o SecondSegment(points)
    /\ lines' = Segments(all_pts')
    /\ pc' = "drawn"
    /\ UNCHANGED << calls, width, height, filename, scale, img, glow_img,
                    ellipses, loc, font, small_font, font_exc, labels, bar,
                    img_rgb, saves, files, out, log, points >>

NextCurve == DrawBreezeCurve

SpecCurve == InitCurve /\ [][NextCurve]_vars

\* ---------------------------------------------------------- properties

\* The three configurations the program is to run, written out
ExpectedCalls ==
    << [width |-> 250,  height |-> 175, filename |-> "small.png"],
       [width |-> 500,  height |-> 350, filename |-> "large.png"],
       [width |-> 1000, height |-> 700, filename |-> "xlarge.png"] >>

\* C1: the program calls generate_image for exactly the three
\* configurations (250,175,small.png), (500,350,large.png),
\* (1000,700,xlarge.png), in this order, and the image handed to save has
\* the requested width and height and is in RGB mode, without alpha.
C1_ThreeRgbImages ==
    /\ Len(calls) <= 3
    /\ \A k \in 1..Len(calls) : calls[k] = ExpectedCalls[k]
    /\ pc = "done" => Len(calls) = 3
    /\ \A k \in 1..Len(saves) : saves[k] = ExpectedCalls[k].filename
    /\ img_rgb # NoImage =>
         /\ calls[Len(calls)] =
              [width |-> width, height |-> height, filename |-> filename]
         /\ saves[Len(saves)] = filename
         /\ img_rgb.mode = "RGB"
         /\ img_rgb.alphas = {}
         /\ img_rgb.size = << width, height >>

C1_Witness ==
    /\ pc = "done"
    /\ Len(saves) = 3
    /\ img_rgb.size = << 1000, 700 >>
    /\ \A f \in FileNames : files[f] = "png"

\* C2: the green fill's width is floor(0.6 * bar_w), with bar_w the width
\* of the track, and the fill rectangle lies inside the track rectangle:
\* same left edge, top and bottom, and 0 <= fill_w <= bar_w.
C2_FillIsSixtyPercent ==
    bar # NoBar =>
        LET t  == bar.track
            f  == bar.fill
            bw == t[3] - t[1]
            fw == f[3] - f[1]
        IN  /\ width \in {250, 500, 1000}
            /\ bw = loc.bar_w /\ fw = loc.fill_w
            /\ t[1] = loc.bar_x /\ t[2] = loc.bar_y
            /\ t[4] = loc.bar_y + loc.bar_h
            /\ 5 * fw <= 3 * bw /\ 3 * bw < 5 * (fw + 1)
            /\ 0 <= fw /\ fw <= bw
            /\ f[1] = t[1] /\ f[2] = t[2] /\ f[4] = t[4]
            /\ t[1] <= f[3] /\ f[3] <= t[3]
            /\ t[2] <= t[4]

C2_Witness ==
    /\ pc = "done"
    /\ Len(log) = 3
    /\ << log[1].bar_w, log[2].bar_w, log[3].bar_w >> = << 62, 125, 250 >>
    /\ << log[1].fill_w, log[2].fill_w, log[3].fill_w >> = << 37, 75, 150 >>

\* The stated minimum of a measurement that is one number
C3_Minimum(f) ==
    CASE f = "dot_r" -> 2
      [] f = "bar_h" -> 2
      [] f = "wave_lw" -> 1
      [] f = "font_size" -> 10
      [] f = "small_font_size" -> 8
      [] OTHER -> 0

C4_Floored == {"grid_spacing", "dot_spacing", "bar_w"}
C4_Clamped == {"dot_r", "wave_lw", "font_size", "small_font_size", "bar_h"}

\* The value of measurement f, one of the icon line widths included, in a
\* record of measurements
C4_Icon == {"icon_lw[0]", "icon_lw[1]", "icon_lw[2]"}
C4_Value(m, f) ==
    CASE f = "icon_lw[0]" -> m.icon_lw[1]
      [] f = "icon_lw[1]" -> m.icon_lw[2]
      [] f = "icon_lw[2]" -> m.icon_lw[3]
      [] OTHER -> m[f]
C4_Has(m, f) == IF f \in C4_Icon THEN "icon_lw" \in DOMAIN m ELSE f \in DOMAIN m

\* C4 as stated: each of these measurements at width 500 is exactly twice
\* its value at width 250, and at width 1000 exactly twice its value at
\* width 500.
C4_ExactlyProportional ==
    \A k \in 1..(Len(log) - 1) :
        \A f \in C4_Floored \cup C4_Clamped \cup C4_Icon :
            (C4_Has(log[k], f) /\ C4_Has(log[k + 1], f)) =>
                C4_Value(log[k + 1], f) = 2 * C4_Value(log[k], f)

\* The design value of each measurement in the 1000-wide space, in
\* tenths, and its minimum
C4_DesignTenths(f) ==
    CASE f = "grid_spacing" -> 700
      [] f = "dot_spacing" -> 180
      [] f = "bar_w" -> 2500
      [] f = "dot_r" -> 30
      [] f = "wave_lw" -> 15
      [] f = "font_size" -> 160
      [] f = "small_font_size" -> 120
      [] f = "bar_h" -> 40
      [] f = "icon_lw[0]" -> 50
      [] f = "icon_lw[1]" -> 40
      [] f = "icon_lw[2]" -> 32

C4_Floor(f) ==
    CASE f \in {"dot_r", "bar_h", "icon_lw[0]", "icon_lw[1]"} -> 2
      [] f \in {"wave_lw", "icon_lw[2]"} -> 1
      [] f = "font_size" -> 10
      [] f = "small_font_size" -> 8
      [] OTHER -> 0

\* C4 amended: each measurement is max(minimum, floor(design value * width
\* / 1000)), so the outputs are proportional up to flooring and the
\* minimums only: doubling the width takes a floored measurement v to 2v or
\* 2v + 1, and a clamped one to a value from v to 2v + 1.
C4_ProportionalUpToFlooring ==
    /\ \A k \in 1..Len(log) :
         \A f \in C4_Floored \cup C4_Clamped \cup C4_Icon :
            C4_Has(log[k], f) =>
                LET fl == (C4_DesignTenths(f) * ExpectedCalls[k].width)
                              \div 10000
                IN  C4_Value(log[k], f) =
                        (IF fl >= C4_Floor(f) THEN fl ELSE C4_Floor(f))
    /\ \A k \in 1..(Len(log) - 1) :
         /\ \A f \in C4_Floored :
              C4_Value(log[k + 1], f)
                  \in {2 * C4_Value(log[k], f), 2 * C4_Value(log[k], f) + 1}
         /\ \A f \in C4_Clamped \cup C4_Icon :
              (C4_Has(log[k], f) /\ C4_Has(log[k + 1], f)) =>
                  /\ C4_Value(log[k], f) <= C4_Value(log[k + 1], f)
                  /\ C4_Value(log[k + 1], f) <= 2 * C4_Value(log[k], f) + 1

C4_Witness ==
    /\ pc = "done"
    /\ Len(log) = 3
    /\ << log[1].bar_w, log[2].bar_w, log[3].bar_w >> = << 62, 125, 250 >>
    /\ << log[1].dot_r, log[2].dot_r, log[3].dot_r >> = << 2, 2, 3 >>

\* C5: with the label drawn at x = tx - tw // 2, the centre of its box,
\* x + tw / 2, is within 1 pixel of the centre of its section,
\* (width / 4) * (i + 1/2).  Both sides are counted in eighths of a pixel.
C5_LabelsCentred ==
    \A k \in 1..Len(labels) :
        LET l == labels[k]
            d == (8 * l.x + 4 * l.tw) - width * (2 * l.i + 1)
        IN  /\ l.i = k - 1
            /\ width \in {250, 500, 1000}
            /\ -8 <= d /\ d <= 8

C5_Witness ==
    /\ width = 250
    /\ Len(labels) = 4
    /\ labels[2].tw = MaxTw /\ labels[2].x = 93 - MaxTw \div 2
    /\ labels[4].tw = 0 /\ labels[4].x = 218

\* C6: a font load that raises, the first or the second, is not fatal:
\* both font and small_font become the default font; from there every step
\* of the call draws the next reading with that font until the four are
\* drawn, the step after them draws the bar and leads to save; and the
\* call does reach save, with the four readings and the bar drawn.
C6_FontFailureNonFatal ==
    /\ [](font_exc # None => (font = "default" /\ small_font = "default"))
    /\ [][(font_exc # None /\ pc = "text") =>
            /\ Len(labels) < 4
            /\ Len(labels') = Len(labels) + 1
            /\ labels'[Len(labels')].font = "default"
            /\ pc' = (IF Len(labels') = 4 THEN "bar" ELSE "text")]_vars
    /\ [][(font_exc # None /\ pc = "bar") =>
            (pc' = "save" /\ bar' # NoBar /\ labels' = labels)]_vars
    /\ []((font_exc # None /\ pc = "save") =>
            /\ Len(labels) = 4
            /\ \A k \in 1..4 : labels[k].font = "default"
            /\ bar # NoBar
            /\ img_rgb = NoImage)
    /\ (pc = "text" /\ font_exc # None)
          ~> (pc = "save" /\ font_exc # None /\ Len(labels) = 4 /\ bar # NoBar)

C6_Witness ==
    /\ pc = "save"
    /\ font_exc = "second"
    /\ font = "default"
    /\ Len(labels) = 4
    /\ bar # NoBar

\* The number of progress lines printed
C7_SavedLines == Cardinality({k \in 1..Len(out) : out[k][1] = "Saved"})

\* C7: a save that raises ends the run there: no later image is generated,
\* neither the progress line of the failing image nor the completion
\* message is printed, no save is tried again, and the images written
\* before it stay.
C7_SaveFailureFatal ==
    Len(saves) > C7_SavedLines =>
        LET n == Len(saves)
        IN  /\ pc = "crashed"
            /\ ~ENABLED Next
            /\ Len(calls) = n
            /\ \A k \in 1..n : saves[k] = ExpectedCalls[k].filename
            /\ out = << << "Generating app store images..." >> >> \o
                     [k \in 1..(n - 1) |->
                        << "Saved", ExpectedCalls[k].filename,
                           ExpectedCalls[k].width, ExpectedCalls[k].height >>]
            /\ \A k \in 1..(n - 1) : files[ExpectedCalls[k].filename] = "png"
            /\ \A k \in (n + 1)..3 : files[ExpectedCalls[k].filename] = "absent"

C7_Witness ==
    /\ pc = "crashed"
    /\ Len(saves) = 2
    /\ files["small.png"] = "png"
    /\ files["large.png"] = "partial"
    /\ files["xlarge.png"] = "absent"

\* C8 as stated: right after its allocation the main canvas is an RGBA
\* canvas of the given size of which every pixel has alpha 0.
C8_CanvasTransparent ==
    pc = "background" =>
        /\ img.mode = "RGBA"
        /\ img.size = << width, height >>
        /\ img.alphas = {0}

\* C8 amended: the main canvas is an RGBA canvas of the given size filled
\* with the opaque BG_DARK: every pixel has alpha 255 right after the
\* allocation and through every drawing step (only the glow layer is
\* allocated fully transparent), and the flatten step pastes it onto an
\* opaque RGB background with its alpha channel as mask.
C8_CanvasOpaque ==
    /\ img # NoImage =>
         /\ img.mode = "RGBA"
         /\ img.size = << width, height >>
         /\ img.alphas = {255}
    /\ glow_img # NoImage =>
         /\ glow_img.mode = "RGBA"
         /\ glow_img.size = << width, height >>
         /\ 0 \in glow_img.alphas
    /\ img_rgb # NoImage =>
         /\ img_rgb.mode = "RGB"
         /\ img_rgb.alphas = {}
         /\ img_rgb.mask = {255}

C8_Witness ==
    /\ pc = "background"
    /\ img.alphas = {255}
    /\ img.size = << 250, 175 >>

\* C9: the polyline has exactly 161 points, the first is points[0], the
\* one at index 80 is points[3], the last is points[6]; 160 segments are
\* drawn, each from a point of the polyline to the next, so each starts
\* where the one before it ended.
C9_Polyline ==
    pc = "drawn" =>
        /\ Len(all_pts) = 161
        /\ all_pts[1] = << 512000 * points[1][1], 512000 * points[1][2] >>
        /\ all_pts[81] = << 512000 * points[4][1], 512000 * points[4][2] >>
        /\ all_pts[161] = << 512000 * points[7][1], 512000 * points[7][2] >>
        /\ Len(lines) = 160
        /\ \A i \in 1..160 : lines[i] = << all_pts[i], all_pts[i + 1] >>
        /\ \A i \in 1..159 : lines[i + 1][1] = lines[i][2]

C9_Witness ==
    /\ pc = "drawn"
    /\ Len(lines) = 160
    /\ points[1] = << 0, 50 >>
    /\ points[4] = << MaxCoord, 50 >>
    /\ points[7] = << 0, 46 >>
    /\ all_pts[81] # all_pts[1]

\* What C10 says of the ellipses apart from the range of alpha
C10_Ellipses ==
    /\ Len(ellipses) = 20
    /\ \A k \in 1..20 :
         /\ ellipses[k].r = 21 - k
         /\ ellipses[k].alpha =
              (IF 8 * (20 - ellipses[k].r) <= 50
               THEN 8 * (20 - ellipses[k].r) ELSE 50)
         /\ ellipses[k].alpha <= 50
    /\ \A k, l \in 1..20 :
         ellipses[k].r < ellipses[l].r =>
            /\ ellipses[k].ex < ellipses[l].ex
            /\ ellipses[k].ey < ellipses[l].ey
            /\ ellipses[k].alpha >= ellipses[l].alpha

\* C10 as stated: 20 ellipses r = 1..20 drawn from r = 20 down to r = 1,
\* alpha = min(8 * (20 - r), 50), every alpha strictly between 0 and 255
\* and at most 50, radii strictly increasing with r, alpha never
\* increasing with the radius.
C10_AllSemiTransparent ==
    ellipses # << >> =>
        /\ C10_Ellipses
        /\ \A k \in 1..20 : 0 < ellipses[k].alpha /\ ellipses[k].alpha < 255

\* C10 amended: as stated, except that alpha lies in 0..50: it is strictly
\* between 0 and 255 for r = 1..19, and 0 (fully transparent) for the
\* outermost ellipse r = 20, the first one drawn.
C10_GlowEllipses ==
    ellipses # << >> =>
        /\ C10_Ellipses
        /\ \A k \in 1..20 :
             /\ 0 <= ellipses[k].alpha /\ ellipses[k].alpha < 255
             /\ ellipses[k].alpha = 0 <=> ellipses[k].r = 20

C10_Witness ==
    /\ pc = "icon"
    /\ Len(ellipses) = 20
    /\ ellipses[1].r = 20 /\ ellipses[1].alpha = 0
    /\ ellipses[20].r = 1 /\ ellipses[20].alpha = 50
    /\ ellipses[7].alpha = 48

==========================================================================
